---- MODULE Spec2Model ----
(***************************************************************************)
(* CONGA (circulo/algorithms/CONGA.py): the divisive decomposition loop    *)
(* of conga(), the per-iteration decision of remove_edge_or_split_vertex,  *)
(* pair betweenness, and the greedy matrix collapse of                     *)
(* max_split_betweenness / reduce_matrix.                                  *)
(*                                                                         *)
(* The igraph primitives the code calls (neighbors, components,            *)
(* get_all_shortest_paths, edge_betweenness, betweenness,                  *)
(* edge_disjoint_paths, delete_edges, add_vertex, add_edge) are modelled   *)
(* by their documented meaning on an undirected graph.  Betweenness values *)
(* are exact rationals, kept as integers scaled by Scale(...).             *)
(*                                                                         *)
(* Vertices are 0-based indices as in igraph; lists (edge list, matrix     *)
(* rows, vMap, covers) are TLA+ sequences and therefore 1-based.           *)
(***************************************************************************)
EXTENDS Integers, Sequences, FiniteSets, TLC

\* Inputs enumerated exhaustively: every simple graph on at most MaxV vertices.
MaxV == 4
\* Greedy collapse checked on its own: matrices of at most MaxDeg rows whose
\* off-diagonal scores are 2*k, k in 0..MaxW (pair_betweenness adds 2 per path).
MaxDeg == 4
MaxW == 1

VARIABLES
    OGn,        \* OG.vcount(): the caller's graph, never mutated
    OGes,       \* OG's edge list
    Gn,         \* G.vcount() of the working copy
    Ges,        \* G.es: the working edge list, in edge-id order
    orig,       \* G.vs['CONGA_orig'], a sequence: orig[v + 1] for vertex v
    nClusters,  \* conga's nClusters
    allCovers,  \* conga's allCovers: key -> cover (a sequence of lists)
    pc,         \* "running" | "done" | "raised"; "collapse" in SpecCollapse
    iters,      \* calls of remove_edge_or_split_vertex made so far
    recorded,   \* the keys of allCovers in the order they were stored
    last,       \* what the last iteration did and saw (see Done)
    clique,     \* max_split_betweenness: the collapsing matrix
    vMap,       \* max_split_betweenness: the group list
    pb0,        \* the matrix create_clique built, before any collapse
    lastIJ      \* the index pair of the last reduce_matrix

vars == <<OGn, OGes, Gn, Ges, orig, nClusters, allCovers, pc, iters, recorded,
          last, clique, vMap, pb0, lastIJ>>
driverVars == <<OGn, OGes, Gn, Ges, orig, nClusters, allCovers, pc, iters,
                recorded, last>>
collapseVars == <<clique, vMap, pb0, lastIJ>>

(***************************************************************************)
(* Small helpers                                                           *)
(***************************************************************************)
RECURSIVE SumFn(_, _)
SumFn(f, S) ==
    IF S = {} THEN 0
    ELSE LET x == CHOOSE y \in S : TRUE IN f[x] + SumFn(f, S \ {x})

RECURSIVE ProdSet(_)
ProdSet(S) ==
    IF S = {} THEN 1
    ELSE LET x == CHOOSE y \in S : TRUE IN x * ProdSet(S \ {x})

SetMin(S) == CHOOSE x \in S : \A y \in S : x <= y

RECURSIVE SortedSeq(_)
SortedSeq(S) ==
    IF S = {} THEN <<>> ELSE <<SetMin(S)>> \o SortedSeq(S \ {SetMin(S)})

Range(s) == {s[k] : k \in 1..Len(s)}

Verts(n) == 0..(n - 1)

(***************************************************************************)
(* igraph primitives                                                       *)
(***************************************************************************)
\* An undirected edge is stored as <<smaller, larger>> (Edge.tuple).
EdgeOf(a, b) == IF a < b THEN <<a, b>> ELSE <<b, a>>

NeighborSet(es, v) ==
    {es[k][2] : k \in {i \in 1..Len(es) : es[i][1] = v}}
        \cup {es[k][1] : k \in {i \in 1..Len(es) : es[i][2] = v}}

\* G.neighbors(v): the neighbours in increasing index order.
Neighbors(es, v) == SortedSeq(NeighborSet(es, v))

\* G.delete_edges((a, b)): the edge between a and b (which the callers always
\* name from the current graph) leaves the edge list; the edges after it move up.
DeleteEdges(es, e) ==
    LET k == SetMin({i \in 1..Len(es) : es[i] = EdgeOf(e[1], e[2])})
    IN  SubSeq(es, 1, k - 1) \o SubSeq(es, k + 1, Len(es))

\* G.add_edge(a, b): the new edge gets the last edge id.
AddEdge(es, a, b) == Append(es, EdgeOf(a, b))

\* One breadth-first level: every shortest path of the current length is
\* extended by every neighbour not reached at a shorter distance.
RECURSIVE ExtendPaths(_, _, _)
ExtendPaths(es, frontier, visited) ==
    LET next == UNION {{Append(p, w) : w \in NeighborSet(es, p[Len(p)]) \ visited}
                       : p \in frontier}
    IN  IF next = {} THEN frontier
        ELSE frontier \cup
             ExtendPaths(es, next, visited \cup {p[Len(p)] : p \in next})

\* G.get_all_shortest_paths(v): all shortest paths from v to every vertex it
\* reaches, v itself included (the one-vertex path).
GetAllShortestPaths(es, v) == ExtendPaths(es, {<<v>>}, {v})

\* The vertices in v's connected component.
Reach(es, v) == {p[Len(p)] : p \in GetAllShortestPaths(es, v)}

\* G.components(): the components in order of their smallest vertex.
RECURSIVE ComponentsFrom(_, _)
ComponentsFrom(es, left) ==
    IF left = {} THEN <<>>
    ELSE LET c == Reach(es, SetMin(left))
         IN  <<c>> \o ComponentsFrom(es, left \ c)

Components(n, es) == ComponentsFrom(es, Verts(n))

\* G.components().membership, as a sequence: membership[v + 1].
Membership(n, es) ==
    LET cs == Components(n, es)
    IN  [k \in 1..n |-> CHOOSE c \in 1..Len(cs) : (k - 1) \in cs[c]]

\* G.edge_disjoint_paths(source, target): zero exactly when target is not in
\* source's component.  Only its truth value is used by the code.
EdgeDisjointPathsPositive(es, s, t) == t \in Reach(es, s)

(***************************************************************************)
(* Betweenness                                                             *)
(***************************************************************************)
\* allPairsShortestPaths of pair_betweenness: the shortest paths from every
\* vertex (each unordered pair appears in both directions).
AllPairsShortestPaths(n, es) ==
    UNION {GetAllShortestPaths(es, v) : v \in Verts(n)}

\* The 'seen' filter of pair_betweenness: sources are visited in increasing
\* index order and a path s -> t marks (t, s) as seen, so exactly the paths
\* with path[0] <= path[-1] are examined, every shortest path once.
SeenFilter(AP) == {p \in AP : p[1] <= p[Len(p)]}

\* Each examined path with the number of shortest paths between its ends.
WithSigma(U) ==
    {<<p, Cardinality({q \in U : q[1] = p[1] /\ q[Len(q)] = p[Len(p)]})>>
        : p \in {q \in U : Len(q) > 1}}

\* The common denominator of the fractional betweenness values.
Scale(T) == ProdSet({t[2] : t \in T})

OnEdge(p, e) == \E i \in 1..(Len(p) - 1) : EdgeOf(p[i], p[i + 1]) = e
Inside(p, v) == \E i \in 2..(Len(p) - 1) : p[i] = v

\* G.edge_betweenness()[k - 1], times Scale(T): each unordered pair of
\* vertices gives an edge the fraction of its shortest paths through it.
EdgeBetweenness(T, es) ==
    LET sc == Scale(T)
    IN  [k \in 1..Len(es) |->
            SumFn([s \in {t[2] : t \in T} |->
                     (sc \div s)
                       * Cardinality({t \in T : t[2] = s /\ OnEdge(t[1], es[k])})],
                  {t[2] : t \in T})]

\* G.betweenness()[v], times Scale(T).
Betweenness(T, n) ==
    LET sc == Scale(T)
    IN  [v \in Verts(n) |->
            SumFn([s \in {t[2] : t \in T} |->
                     (sc \div s)
                       * Cardinality({t \in T : t[2] = s /\ Inside(t[1], v)})],
                  {t[2] : t \in T})]

\* The score pair_betweenness leaves in dic[v][(u, w)]: 2 for every examined
\* path on which u, v, w or w, v, u are consecutive.
PairScore(U, v, u, w) ==
    2 * Cardinality({pi \in UNION {{<<p, i>> : i \in 2..(Len(p) - 1)} : p \in U} :
            LET p == pi[1]
                i == pi[2]
            IN  /\ p[i] = v
                /\ \/ (p[i - 1] = u /\ p[i + 1] = w)
                   \/ (p[i - 1] = w /\ p[i + 1] = u)})

\* pair_betweenness(G, arr): dic[v][<<u, w>>] for v in arr and every ordered
\* pair of distinct neighbours of v.
PairBetweenness(n, es, arr) ==
    LET U == SeenFilter(AllPairsShortestPaths(n, es))
    IN  [v \in arr |->
            [uw \in {x \in NeighborSet(es, v) \X NeighborSet(es, v) : x[1] # x[2]}
                |-> PairScore(U, v, uw[1], uw[2])]]

(***************************************************************************)
(* Optimal split finder                                                    *)
(***************************************************************************)
\* create_clique(G, v, pb): the matrix over v's neighbours, in G.neighbors(v)
\* order, of their pair betweenness scores; the diagonal is zero.
create_clique(es, v, pbv) ==
    LET nb == Neighbors(es, v)
    IN  [r \in 1..Len(nb) |->
            [c \in 1..Len(nb) |->
                IF r = c THEN 0 ELSE pbv[<<nb[r], nb[c]>>]]]

OffDiagonal(M) == {ij \in (1..Len(M)) \X (1..Len(M)) : ij[1] # ij[2]}

\* mat_min(M): with the diagonal masked by infinity, argmin over the flattened
\* matrix, i.e. the first smallest off-diagonal cell in row-major order.
mat_min(M) ==
    CHOOSE ij \in OffDiagonal(M) :
        \A kl \in OffDiagonal(M) :
            \/ M[ij[1]][ij[2]] < M[kl[1]][kl[2]]
            \/ /\ M[ij[1]][ij[2]] = M[kl[1]][kl[2]]
               /\ \/ ij[1] < kl[1]
                  \/ (ij[1] = kl[1] /\ ij[2] <= kl[2])

\* reduce_matrix with the column addition left out: only the rows are summed.
reduce_matrix_RowsOnly(M) ==
    LET ij == mat_min(M)
        i == ij[1]
        j == ij[2]
        n == Len(M)
        RowAdded(r, c) == IF r = i THEN M[j][c] + M[i][c] ELSE M[r][c]
        RowDropped(r, c) == RowAdded(IF r < j THEN r ELSE r + 1, c)
        ColDropped(r, c) == RowDropped(r, IF c < j THEN c ELSE c + 1)
    IN  [i |-> i, j |-> j,
         M |-> [r \in 1..(n - 1) |->
                  [c \in 1..(n - 1) |-> IF r = c THEN 0 ELSE ColDropped(r, c)]]]

\* reduce_matrix(M): row i += row j, row j deleted, column i += column j,
\* column j deleted, diagonal zeroed.  Returns i, j and the new matrix.
reduce_matrix(M) ==
    LET ij == mat_min(M)
        i == ij[1]
        j == ij[2]
        n == Len(M)
        \* M[i,:] = M[j,:] + M[i,:]
        RowAdded(r, c) == IF r = i THEN M[j][c] + M[i][c] ELSE M[r][c]
        \* M = np.delete(M, (j), axis=0)
        RowDropped(r, c) == RowAdded(IF r < j THEN r ELSE r + 1, c)
        \* M[:,i] = M[:,j] + M[:,i]
        ColAdded(r, c) ==
            IF c = i THEN RowDropped(r, j) + RowDropped(r, i) ELSE RowDropped(r, c)
        \* M = np.delete(M, (j), axis=1)
        ColDropped(r, c) == ColAdded(r, IF c < j THEN c ELSE c + 1)
    IN  [i |-> i, j |-> j,
         \* np.fill_diagonal(M, 0)
         M |-> [r \in 1..(n - 1) |->
                  [c \in 1..(n - 1) |-> IF r = c THEN 0 ELSE ColDropped(r, c)]]]

\* vMap[i] += vMap.pop(j): the list at i is fetched, j is popped, the list is
\* extended and stored back at index i.  (With i < j, the only case that
\* arises, the store hits the list's own place.)
MergeGroups(vm, i, j) ==
    LET merged == vm[i] \o vm[j]
        \* the list after pop(j), its old entry i already extended in place
        Popped(k) == LET old == IF k < j THEN k ELSE k + 1
                     IN  IF old = i THEN merged ELSE vm[old]
    IN  [k \in 1..(Len(vm) - 1) |-> IF k = i THEN merged ELSE Popped(k)]

\* The while loop of max_split_betweenness: collapse until clique.size <= 4.
\* Merged(vm, r) is vMap after i, j, clique = reduce_matrix(clique).
Merged(vm, r) == MergeGroups(vm, r.i, r.j)

RECURSIVE Collapse(_, _)
Collapse(M, vm) ==
    IF Len(M) * Len(M) > 4
    THEN Collapse(reduce_matrix(M).M, Merged(vm, reduce_matrix(M)))
    ELSE [clique |-> M, vMap |-> vm]

\* One vertex of the for loop of max_split_betweenness: its collapsed matrix
\* and grouping.
SplitOf(es, v, pbv) ==
    Collapse(create_clique(es, v, pbv),
             [k \in 1..Len(Neighbors(es, v)) |-> <<Neighbors(es, v)[k]>>])

\* The body of the for loop for vertex v with collapse result c: a strictly
\* larger score replaces the running maximum.  indexError: clique[0,1] was read
\* from a matrix with fewer than 2 rows.
MsbBody(acc, v, c) ==
    IF Len(c.clique) < 2
    THEN [vMax |-> acc.vMax, bound |-> acc.bound, vNum |-> acc.vNum,
          vSpl |-> acc.vSpl, indexError |-> TRUE]
    ELSE IF c.clique[1][2] > acc.vMax
         THEN [vMax |-> c.clique[1][2], bound |-> TRUE, vNum |-> v,
               vSpl |-> c.vMap, indexError |-> FALSE]
         ELSE acc

\* The for loop, over the candidates in increasing order.
RECURSIVE MsbLoop(_, _, _, _)
MsbLoop(es, dic, todo, acc) ==
    IF todo = <<>> \/ acc.indexError THEN acc
    ELSE MsbLoop(es, dic, Tail(todo),
                 MsbBody(acc, Head(todo), SplitOf(es, Head(todo), dic[Head(todo)])))

\* max_split_betweenness(G, dic).  bound = FALSE at the return means vNum and
\* vSpl were never assigned (the return raises UnboundLocalError).
max_split_betweenness(es, dic) ==
    MsbLoop(es, dic, SortedSeq(DOMAIN dic),
            [vMax |-> 0, bound |-> FALSE, vNum |-> 0, vSpl |-> <<>>,
             indexError |-> FALSE])

(***************************************************************************)
(* Graph modifications                                                     *)
(***************************************************************************)
\* check_for_split without the negation: True while the two ends are joined.
check_for_split_Joined(es, edge) == EdgeDisjointPathsPositive(es, edge[1], edge[2])

\* check_for_split looking only for a direct edge between the two ends.
check_for_split_Adjacent(es, edge) == EdgeOf(edge[1], edge[2]) \notin Range(es)

\* check_for_split(G, edge): True when no path joins the two ends.
check_for_split(es, edge) == ~EdgeDisjointPathsPositive(es, edge[1], edge[2])

\* delete_edge(G, edge)
delete_edge(es, edge) ==
    [es |-> DeleteEdges(es, edge),
     split |-> check_for_split(DeleteEdges(es, edge), edge)]

\* The for loop of split_vertex without the delete_edges call: the clone gets
\* a copy of each partner's edge and v keeps its own.
RECURSIVE MoveEdges_Copy(_, _, _, _)
MoveEdges_Copy(es, v, new, partners) ==
    IF partners = <<>> THEN es
    ELSE MoveEdges_Copy(AddEdge(es, new, Head(partners)), v, new, Tail(partners))

\* The for loop of split_vertex: each partner's edge moves from v to the clone.
RECURSIVE MoveEdges(_, _, _, _)
MoveEdges(es, v, new, partners) ==
    IF partners = <<>> THEN es
    ELSE MoveEdges(DeleteEdges(AddEdge(es, new, Head(partners)), <<v, Head(partners)>>),
                   v, new, Tail(partners))

\* A clone labelled with its own index instead of v's CONGA_orig.
CloneOrigin_OwnIndex(og, v) == Len(og)

\* The CONGA_orig a clone receives.
CloneOrigin(og, v) == og[v + 1]

\* split_vertex(G, v, splitInstructions)
split_vertex(n, es, og, v, partners) ==
    [n |-> n + 1, es |-> MoveEdges(es, v, n, partners),
     orig |-> Append(og, CloneOrigin(og, v)),
     split |-> check_for_split(MoveEdges(es, v, n, partners), <<v, n>>)]

(***************************************************************************)
(* The per-iteration decision                                              *)
(***************************************************************************)
SetMax(S) == CHOOSE x \in S : \A y \in S : y <= x

\* max(enumerate(eb), key=itemgetter(1)): the first index of the largest value.
MaxIndex(eb) ==
    SetMin({k \in DOMAIN eb : eb[k] = SetMax({eb[i] : i \in DOMAIN eb})})

\* vi without the betweenness threshold: every vertex is a candidate.
Candidates_All(vb, maxEb) == DOMAIN vb

\* vi: the vertices whose betweenness is at least the largest edge betweenness.
Candidates(vb, maxEb) == {v \in DOMAIN vb : vb[v] >= maxEb}

\* maxSplit > maxEb, maxSplit an integer score and maxEb scaled by sc.
SplitBeatsEdge(maxSplit, maxEb, sc) == maxSplit * sc > maxEb

\* Lines 72-83 of remove_edge_or_split_vertex, from the betweenness lists.
AnalysisOf(sc, eb, vb, es) ==
    [scale |-> sc, maxIndex |-> MaxIndex(eb), maxEb |-> eb[MaxIndex(eb)],
     vb |-> vb, vi |-> Candidates(vb, eb[MaxIndex(eb)]), edge |-> es[MaxIndex(eb)]]

AnalysisFrom(T, n, es) ==
    AnalysisOf(Scale(T), EdgeBetweenness(T, es), Betweenness(T, n), es)

Analysis(n, es) ==
    AnalysisFrom(WithSigma(SeenFilter(AllPairsShortestPaths(n, es))), n, es)

\* Lines 85-93: what the iteration will do, from the analysis a and, when
\* there are candidates, the result m of max_split_betweenness.  op is
\* "delete", "split" or "raise" (max_split_betweenness raised).
ChoiceOf(a, m) ==
    [op |-> IF m.indexError \/ ~m.bound THEN "raise"
            ELSE IF SplitBeatsEdge(m.vMax, a.maxEb, a.scale) THEN "split"
            ELSE "delete",
     edge |-> a.edge, vi |-> a.vi, maxEb |-> a.maxEb, scale |-> a.scale,
     vMax |-> m.vMax, vNum |-> m.vNum, vSpl |-> m.vSpl]

\* if not vi: delete the edge, no split is looked for.
NoSplitSought ==
    [vMax |-> 0, bound |-> TRUE, vNum |-> 0, vSpl |-> <<>>, indexError |-> FALSE]

ChoiceFrom(n, es, a) ==
    IF a.vi = {} THEN ChoiceOf(a, NoSplitSought)
    ELSE ChoiceOf(a, max_split_betweenness(es, PairBetweenness(n, es, a.vi)))

Choice(n, es) == ChoiceFrom(n, es, Analysis(n, es))

\* The modification chosen by c, applied: the graph after it and the value
\* remove_edge_or_split_vertex returns.
Outcome(raised, n, es, og, split, c) ==
    [raised |-> raised, n |-> n, es |-> es, orig |-> og, split |-> split,
     choice |-> c]

AfterSplit(sv, c) == Outcome(FALSE, sv.n, sv.es, sv.orig, sv.split, c)

AfterDelete(n, og, de, c) == Outcome(FALSE, n, de.es, og, de.split, c)

Apply(n, es, og, c) ==
    IF c.op = "raise" THEN Outcome(TRUE, n, es, og, FALSE, c)
    ELSE IF c.op = "split"
    THEN AfterSplit(split_vertex(n, es, og, c.vNum, c.vSpl[1]), c)
    ELSE AfterDelete(n, og, delete_edge(es, c.edge), c)

\* remove_edge_or_split_vertex(G)
remove_edge_or_split_vertex(n, es, og) == Apply(n, es, og, Choice(n, es))

(***************************************************************************)
(* Covers                                                                  *)
(***************************************************************************)
\* [i.index for i in OG.vs]
OriginalIds(n) == SortedSeq(Verts(n))

\* ig.VertexCover(OG) without clusters: a single cluster holding every vertex.
DefaultCover(n) == <<OriginalIds(n)>>

\* The loop of get_cover: coverDict[community].append(CONGA_orig of vertex i).
\* Membership ids are numbered in order of first appearance, so a new id is
\* always the next key of coverDict.
RECURSIVE CoverLoop(_, _, _, _)
CoverLoop(og, comm, i, coverDict) ==
    IF i > Len(comm) THEN coverDict
    ELSE CoverLoop(og, comm, i + 1,
                   IF comm[i] > Len(coverDict)
                   THEN Append(coverDict, <<og[i]>>)
                   ELSE [c \in 1..Len(coverDict) |->
                           IF c = comm[i] THEN Append(coverDict[c], og[i])
                           ELSE coverDict[c]])

\* get_cover(G, OG, comm): coverDict.values(), each a list of original ids.
get_cover(og, comm) == CoverLoop(og, comm, 1, <<>>)

\* The cluster count left as it is.
NextClusterCount_Same(k) == k

\* nClusters += 1
NextClusterCount(k) == k + 1

(***************************************************************************)
(* conga(): the decomposition driver                                       *)
(***************************************************************************)
PairsOf(n) == {e \in Verts(n) \X Verts(n) : e[1] < e[2]}

EdgeBefore(e, f) == e[1] < f[1] \/ (e[1] = f[1] /\ e[2] <= f[2])

\* An edge set as an edge list in lexicographic order.
RECURSIVE SortedEdges(_)
SortedEdges(S) ==
    IF S = {} THEN <<>>
    ELSE LET e == CHOOSE x \in S : \A y \in S : EdgeBefore(x, y)
         IN  <<e>> \o SortedEdges(S \ {e})

\* The 4-cycle 0-1-2-3-0 with its edges in walking order.
Cycle4 == [n |-> 4, es |-> <<<<0, 1>>, <<1, 2>>, <<2, 3>>, <<0, 3>>>>]

\* Two triangles joined by the bridge 2-3.
TwoTriangles ==
    [n |-> 6, es |-> <<<<0, 1>>, <<0, 2>>, <<1, 2>>, <<2, 3>>, <<3, 4>>, <<3, 5>>,
                       <<4, 5>>>>]

\* Eight vertices around the hub 2, eleven edges.
Hub8 ==
    [n |-> 8, es |->
        <<<<0, 2>>, <<0, 4>>, <<0, 5>>, <<1, 2>>, <<2, 3>>, <<2, 4>>, <<2,
        5>>, <<2, 6>>, <<2, 7>>, <<3, 4>>, <<4, 6>>>>]

\* Eight vertices, twenty-one edges.
Dense8 ==
    [n |-> 8, es |->
        <<<<0, 2>>, <<0, 4>>, <<0, 6>>, <<0, 7>>, <<1, 2>>, <<1, 3>>, <<1,
        4>>, <<1, 5>>, <<1, 7>>, <<2, 3>>, <<2, 4>>, <<2, 7>>, <<3, 4>>,
        <<3, 6>>, <<3, 7>>, <<4, 5>>, <<4, 6>>, <<4, 7>>, <<5, 6>>, <<5,
        7>>, <<6, 7>>>>]

NamedInputs == {Cycle4, TwoTriangles, Hub8, Dense8}

\* The inputs: every simple graph on 1..MaxV vertices, and the named ones.
Inputs ==
    {[n |-> n, es |-> SortedEdges(S)] :
        <<n, S>> \in {x \in (1..MaxV) \X (SUBSET PairsOf(MaxV)) : x[2] \subseteq PairsOf(x[1])}}
    \cup NamedInputs

NoOp == [op |-> "none", split |-> FALSE, edge |-> <<0, 0>>, v |-> 0, clone |-> 0,
         groups |-> <<>>, nbrs |-> <<>>, cands |-> {}, candDeg |-> {}, comps |-> 0]

CollapseIdle ==
    /\ clique = <<>>
    /\ vMap = <<>>
    /\ pb0 = <<>>
    /\ lastIJ = <<0, 0>>

\* conga() up to the while loop (lines 32-46).
Init ==
    /\ \E g \in Inputs :
        /\ OGn = g.n
        /\ OGes = g.es
        /\ Gn = g.n
        /\ Ges = g.es
        /\ orig = OriginalIds(g.n)
        /\ nClusters = Len(Components(g.n, g.es))
        /\ allCovers = (Len(Components(g.n, g.es)) :> DefaultCover(g.n))
        /\ recorded = <<Len(Components(g.n, g.es))>>
    /\ pc = "running"
    /\ iters = 0
    /\ last = NoOp
    /\ CollapseIdle

\* What the ghost variable last keeps of an iteration.
Done(r) ==
    [op |-> r.choice.op, split |-> r.split, edge |-> r.choice.edge,
     v |-> r.choice.vNum, clone |-> Gn, groups |-> r.choice.vSpl,
     nbrs |-> IF r.choice.op = "split" THEN Neighbors(Ges, r.choice.vNum) ELSE <<>>,
     cands |-> r.choice.vi,
     candDeg |-> {<<v, Cardinality(NeighborSet(Ges, v))>> : v \in r.choice.vi},
     comps |-> Len(Components(Gn, Ges))]

\* Lines 49-54, for the outcome r of remove_edge_or_split_vertex: when it
\* split the graph, the new snapshot is stored under the next cluster count.
Record(r) ==
    IF r.split
    THEN /\ nClusters' = NextClusterCount(nClusters)
         /\ allCovers' = (NextClusterCount(nClusters)
                            :> get_cover(r.orig, Membership(r.n, r.es))) @@ allCovers
         /\ recorded' = Append(recorded, NextClusterCount(nClusters))
    ELSE UNCHANGED <<nClusters, allCovers, recorded>>

Step(r) ==
    /\ pc' = IF r.raised THEN "raised" ELSE "running"
    /\ Gn' = r.n
    /\ Ges' = r.es
    /\ orig' = r.orig
    /\ iters' = iters + 1
    /\ last' = Done(r)
    /\ Record(r)

\* One pass of the while loop (lines 47-56).
Iteration ==
    /\ pc = "running"
    /\ Ges # <<>>
    /\ Step(remove_edge_or_split_vertex(Gn, Ges, orig))
    /\ UNCHANGED <<OGn, OGes>>
    /\ UNCHANGED collapseVars

\* The loop ends when no edge is left; the history is handed over (line 58).
Return ==
    /\ pc = "running"
    /\ Ges = <<>>
    /\ pc' = "done"
    /\ UNCHANGED <<OGn, OGes, Gn, Ges, orig, nClusters, allCovers, iters, recorded, last>>
    /\ UNCHANGED collapseVars

Next == Iteration \/ Return

Spec == Init /\ [][Next]_vars

(***************************************************************************)
(* The greedy collapse of max_split_betweenness, step by step, on every    *)
(* symmetric score matrix with a zero diagonal of at most MaxDeg rows.     *)
(* Neighbours are named by their position in G.neighbors(v).               *)
(***************************************************************************)
UPairs(n) == {e \in (1..n) \X (1..n) : e[1] < e[2]}

Scores == {2 * k : k \in 0..MaxW}

SymmetricMatrix(n, f) ==
    [r \in 1..n |->
        [c \in 1..n |->
            IF r = c THEN 0 ELSE IF r < c THEN f[<<r, c>>] ELSE f[<<c, r>>]]]

DriverIdle ==
    /\ OGn = 0
    /\ OGes = <<>>
    /\ Gn = 0
    /\ Ges = <<>>
    /\ orig = <<>>
    /\ nClusters = 0
    /\ allCovers = <<>>
    /\ pc = "collapse"
    /\ iters = 0
    /\ recorded = <<>>
    /\ last = NoOp

\* create_clique's result and the initial vMap (lines 232-235).
InitCollapse ==
    /\ DriverIdle
    /\ \E n \in 2..MaxDeg :
         \E f \in [UPairs(n) -> Scores] :
            /\ pb0 = SymmetricMatrix(n, f)
            /\ clique = SymmetricMatrix(n, f)
            /\ vMap = [k \in 1..n |-> <<k>>]
    /\ lastIJ = <<0, 0>>

Reduced(r) ==
    /\ clique' = r.M
    /\ vMap' = Merged(vMap, r)
    /\ lastIJ' = <<r.i, r.j>>

\* One pass of the while loop (lines 241-243).
CollapseStep ==
    /\ pc = "collapse"
    /\ Len(clique) * Len(clique) > 4
    /\ Reduced(reduce_matrix(clique))
    /\ UNCHANGED pb0
    /\ UNCHANGED driverVars

SpecCollapse == InitCollapse /\ [][CollapseStep]_vars

(***************************************************************************)
(* Properties                                                              *)
(***************************************************************************)
Communities(k) == Range(allCovers[k])

ComponentCount(n, es) == Len(Components(n, es))

\* C1, as stated: the run never raises, ends only with no edge left, and
\* takes at most edge count plus vertex count iterations.
C1_WithinEdgesPlusVertices ==
    /\ pc # "raised"
    /\ pc = "done" => Ges = <<>>
    /\ iters <= Len(OGes) + OGn

\* The modifications the working graph can still take: every edge can be
\* deleted once, and a vertex with d neighbours can give rise to d - 1 splits.
Slack(n, es) ==
    Len(es) + SumFn([v \in Verts(n) |->
                        IF NeighborSet(es, v) = {} THEN 0
                        ELSE Cardinality(NeighborSet(es, v)) - 1], Verts(n))

\* C1, amended: the run never raises, ends only with no edge left, and the
\* iterations run so far plus the modifications still possible never exceed
\* three times the input's edge count; so the loop ends within 3 * edges
\* iterations.
C1_Terminates ==
    /\ pc # "raised"
    /\ pc = "done" => Ges = <<>>
    /\ iters + Slack(Gn, Ges) <= 3 * Len(OGes)
    /\ Ges # <<>> => Slack(Gn, Ges) > 0

\* A finished run that took more iterations than edges plus vertices.
C1_Witness == pc = "done" /\ iters > Len(OGes) + OGn

\* C2: every snapshot covers exactly the original vertices, every working
\* vertex (clones included) carries the id of an original vertex, and an
\* original vertex carries its own.
C2_CoversAreComplete ==
    /\ \A k \in DOMAIN allCovers :
          UNION {Range(c) : c \in Communities(k)} = Verts(OGn)
    /\ Len(orig) = Gn
    /\ \A v \in Verts(Gn) : orig[v + 1] \in Verts(OGn)
    /\ \A v \in Verts(OGn) : orig[v + 1] = v

\* A snapshot recorded right after a split, with a clone in the graph.
C2_Witness ==
    /\ last.op = "split"
    /\ last.split
    /\ Gn > OGn
    /\ nClusters \in DOMAIN allCovers

StrictlyIncreasing(s) == \A k \in 1..(Len(s) - 1) : s[k] < s[k + 1]

\* C3, as stated: the recorded cluster counts strictly increase and nClusters
\* always equals the number of keys of allCovers.
C3_CountEqualsKeys ==
    /\ StrictlyIncreasing(recorded)
    /\ nClusters = Cardinality(DOMAIN allCovers)

\* C3, amended: the recorded cluster counts strictly increase, nClusters is
\* the latest key, and the keys are the counts from the input's component
\* count up to nClusters, so there are nClusters - components(input) + 1.
C3_KeysFromComponentCount ==
    /\ StrictlyIncreasing(recorded)
    /\ nClusters = recorded[Len(recorded)]
    /\ DOMAIN allCovers = Range(recorded)
    /\ DOMAIN allCovers = ComponentCount(OGn, OGes)..nClusters

\* A disconnected input with a snapshot recorded in the loop.
C3_Witness ==
    /\ ComponentCount(OGn, OGes) > 1
    /\ Len(recorded) > 1
    /\ nClusters # Cardinality(DOMAIN allCovers)

\* C4: from a zero-edge input no iteration runs and the history holds the
\* one connected-components snapshot of the input under the component count.
C4_ComponentsSnapshot ==
    (OGes = <<>> /\ pc = "done") =>
        /\ iters = 0
        /\ DOMAIN allCovers = {ComponentCount(OGn, OGes)}
        /\ allCovers[ComponentCount(OGn, OGes)]
              = get_cover(OriginalIds(OGn), Membership(OGn, OGes))

FourCycle == {<<0, 1>>, <<1, 2>>, <<2, 3>>, <<0, 3>>}

OnFourCycle == OGn = 4 /\ Len(OGes) = 4 /\ Range(OGes) = FourCycle

\* C5: on the cycle 0-1-2-3-0 no vertex is split, the first deletion leaves
\* one cluster, three more deletions follow with snapshots at 2, 3 and 4, and
\* the last snapshot has every vertex alone.
C5_FourCycleRun ==
    OnFourCycle =>
        /\ last.op \in {"none", "delete"}
        /\ Gn = 4
        /\ Len(Ges) = 4 - iters
        /\ nClusters = IF iters <= 1 THEN 1 ELSE iters
        /\ recorded = SubSeq(<<1, 2, 3, 4>>, 1, nClusters)
        /\ DOMAIN allCovers = 1..nClusters
        /\ pc = "done" =>
              /\ iters = 4
              /\ Len(allCovers[4]) = 4
              /\ Communities(4) = {<<v>> : v \in Verts(4)}

\* The run on the cycle, finished.
C5_Witness == OnFourCycle /\ pc = "done" /\ iters = 4

\* The split betweenness of v: the value the collapse of its clique ends on.
SplitBetweenness(n, es, v) ==
    SplitOf(es, v, PairBetweenness(n, es, {v})[v]).clique[1][2]

FilteredOut(a, es) ==
    {v \in DOMAIN a.vb : a.vb[v] < a.maxEb /\ Cardinality(NeighborSet(es, v)) >= 2}

NothingLost(a, n, es) ==
    \A v \in FilteredOut(a, es) :
        ~SplitBeatsEdge(SplitBetweenness(n, es, v), a.maxEb, a.scale)

\* C6: in every iteration, a vertex with at least 2 neighbours whose
\* betweenness is below maxEb has a split betweenness that does not exceed
\* maxEb.
C6_FilterLosesNothing ==
    (pc = "running" /\ Ges # <<>>) => NothingLost(Analysis(Gn, Ges), Gn, Ges)

\* C7: every candidate of the last iteration had at least 2 neighbours,
\* max_split_betweenness returned a vertex and a grouping, and a split's
\* instruction and its complement are two non-empty disjoint groups that make
\* up the neighbours of the vertex: the clone took the first group, the
\* vertex kept the second.
C7_SplitsAreProper ==
    /\ pc # "raised"
    /\ last.op # "raise"
    /\ \A vd \in last.candDeg : vd[2] >= 2
    /\ last.op = "split" =>
          /\ last.v \in last.cands
          /\ Len(last.groups) = 2
          /\ last.groups[1] # <<>>
          /\ last.groups[2] # <<>>
          /\ Range(last.groups[1]) \cap Range(last.groups[2]) = {}
          /\ Range(last.groups[1]) \cup Range(last.groups[2]) = Range(last.nbrs)
          /\ Len(last.groups[1]) + Len(last.groups[2]) = Len(last.nbrs)
          /\ NeighborSet(Ges, last.clone) = Range(last.groups[1])
          /\ NeighborSet(Ges, last.v) = Range(last.groups[2])

\* A split of a vertex with three or more neighbours.
C7_Witness == last.op = "split" /\ Len(last.nbrs) >= 3

\* C8: no community of any snapshot lists an original vertex twice.
C8_CommunitiesAreSets ==
    \A k \in DOMAIN allCovers :
        \A c \in Communities(k) : Cardinality(Range(c)) = Len(c)

Symmetric(M) ==
    \A r \in 1..Len(M) : \A c \in 1..Len(M) : M[r][c] = M[c][r]

GroupsPartition(vm, n) ==
    /\ \A k \in 1..Len(vm) : vm[k] # <<>>
    /\ \A k \in 1..Len(vm) : Cardinality(Range(vm[k])) = Len(vm[k])
    /\ \A k \in 1..Len(vm) : \A l \in 1..Len(vm) :
          k # l => Range(vm[k]) \cap Range(vm[l]) = {}
    /\ UNION {Range(vm[k]) : k \in 1..Len(vm)} = 1..n

CrossSum(g, h) ==
    SumFn([ab \in Range(g) \X Range(h) |-> pb0[ab[1]][ab[2]]], Range(g) \X Range(h))

\* C9: through the collapse the matrix stays symmetric, the merged pair has
\* i < j, there are as many groups as rows, the groups partition the
\* neighbours, and the 2x2 matrix holds the sum of the scores between the two
\* groups.
C9_Lockstep ==
    pc = "collapse" =>
        /\ Symmetric(clique)
        /\ \A r \in 1..Len(clique) : Len(clique[r]) = Len(clique)
        /\ lastIJ # <<0, 0>> =>
              (lastIJ[1] < lastIJ[2] /\ lastIJ[2] <= Len(clique) + 1)
        /\ Len(vMap) = Len(clique)
        /\ GroupsPartition(vMap, Len(pb0))
        /\ Len(clique) = 2 => clique[1][2] = CrossSum(vMap[1], vMap[2])

\* A collapse from four neighbours down to two groups with a positive score.
C9_Witness ==
    /\ pc = "collapse"
    /\ Len(pb0) = 4
    /\ Len(clique) = 2
    /\ lastIJ # <<0, 0>>
    /\ clique[1][2] > 0

\* C10: nClusters is the component count of the working graph, the last
\* iteration returned True exactly when it raised that count, and by one;
\* a snapshot recorded in the loop under k has k communities; at the end
\* every working vertex is a cluster.
C10_CountIsComponents ==
    pc # "raised" =>
        /\ nClusters = ComponentCount(Gn, Ges)
        /\ last.op # "none" =>
              ComponentCount(Gn, Ges) = last.comps + (IF last.split THEN 1 ELSE 0)
        /\ \A k \in Range(Tail(recorded)) : Len(allCovers[k]) = k
        /\ pc = "done" => nClusters = Gn

\* A split that left the graph connected: no snapshot, the count stays.
C10_Witness ==
    /\ last.op = "split"
    /\ ~last.split
    /\ nClusters = last.comps

====
